---- MODULE Spec2Model ----
(***************************************************************************)
(* Model of trinity/cli/launcher.py.                                       *)
(*                                                                         *)
(* both() drives an Explorer actor and a Trainer actor through readiness,  *)
(* prepare, sync_weight and a raced run phase, followed by a bounded wait  *)
(* on the slower actor and a fire-and-forget shutdown.  explore(), train() *)
(* and bench() drive one actor through awaited calls inside try/except.    *)
(* run() activates the data pipelines, calls the function of the           *)
(* configured mode inside try/finally and runs the cleanup.                *)
(*                                                                         *)
(* The launcher is a single sequential process: rpc is its position in     *)
(* run(), pc its position in the mode function.  Remote calls are          *)
(* asynchronous: dispatching a call marks it "pending", and the actor      *)
(* completes it ("ok" or "failed") in a step of its own.  An actor may     *)
(* never complete a call: no fairness is placed on actors.                 *)
(*                                                                         *)
(* Spec and FairSpec cover both() alone, BranchSpec its code from line 129 *)
(* on, RunSpec run() with every mode, PipelineSpec run() up to the call of *)
(* the mode function for every data-processor configuration.               *)
(***************************************************************************)
EXTENDS Integers, FiniteSets, Sequences, TLC

VARIABLES pc, config, registered, calls, status,
          ready_ref, wait_ref, ready, detected, timeout, elapsed,
          rpc, mode, dlc, enable_ray_timeline, data_processor,
          activated, cleanup, reported, exc

\* the state of run() around the mode functions: its position, config.mode,
\* the dlc argument, config.monitor.enable_ray_timeline,
\* config.data_processor, the pipelines whose activation was requested,
\* the cleanup steps executed, the failure a mode function logged, and
\* whether an exception is propagating
rvars == <<rpc, mode, dlc, enable_ray_timeline, data_processor,
           activated, cleanup, reported, exc>>

vars == <<pc, config, registered, calls, status,
          ready_ref, wait_ref, ready, detected, timeout, elapsed, rvars>>

(* ---------------------------- bounds ----------------------------------- *)

\* largest configured synchronizer.sync_timeout that is enumerated
MaxSyncTimeout == 6

\* cap on the grace clock (never reached by the code: elapsed <= timeout)
MaxClock == 8

(* --------------------------- constants --------------------------------- *)

\* ray.wait(wait_ref, timeout=5)
ShortWindow == 5

Handles == {"Explorer", "Trainer"}

Other(h) == IF h = "Explorer" THEN "Trainer" ELSE "Explorer"

\* the remote methods the launcher invokes on a handle
\* ("run" stands for explorer.explore / trainer.train)
Ops == {"__ray_ready__", "prepare", "sync_weight", "run", "shutdown"}

Names == {"explorer", "trainer"}

Configs == [explorer_name : Names, trainer_name : Names,
            sync_timeout : 1..MaxSyncTimeout]

\* config.explorer.name / config.trainer.name
NameOf(h) == IF h = "Explorer" THEN config.explorer_name ELSE config.trainer_name

\* the value explore() / train() returns: the role's own configured name
RunToken(h) == NameOf(h)

(* ---------------------------- helpers ---------------------------------- *)

\* h.op.remote(): the call is issued and its result is pending
Dispatched(cs, h, op) == [cs EXCEPT ![h][op] = @ + 1]

Pending(st, h, op) == [st EXCEPT ![h][op] = "pending"]

AllOk(op) == \A h \in Handles : status[h][op] = "ok"

AnyFailed(op) == \E h \in Handles : status[h][op] = "failed"

Completed(h, op) == status[h][op] \in {"ok", "failed"}

\* variant: returns as soon as one of the two results is available
RayGetAny(op, next) ==
    \/ /\ AnyFailed(op)
       /\ pc' = "raised"
    \/ /\ \E h \in Handles : status[h][op] = "ok"
       /\ pc' = next

\* variant: waits for both results and drops an exception
RayGetIgnoreFailure(op, next) ==
    /\ \A h \in Handles : Completed(h, op)
    /\ pc' = next

\* ray.get([...]) on the two results of one phase: returns when both
\* succeeded, raises when one failed
RayGetAll(op, next) ==
    \/ /\ AnyFailed(op)
       /\ pc' = "raised"
    \/ /\ AllOk(op)
       /\ pc' = next

\* variant: ray.get(explorer.op.remote()) ahead of trainer.op.remote()
DispatchExplorerOnly(op) ==
    /\ calls' = Dispatched(calls, "Explorer", op)
    /\ status' = Pending(status, "Explorer", op)

\* explorer.op.remote(), trainer.op.remote() as the arguments of one call
DispatchBoth(op) ==
    /\ calls' = Dispatched(Dispatched(calls, "Explorer", op), "Trainer", op)
    /\ status' = Pending(Pending(status, "Explorer", op), "Trainer", op)

\* variant: ray.wait(wait_ref) without a timeout
GraceBlockedNoTimeout ==
    status[wait_ref]["run"] = "pending"

\* variant: time.sleep(t) in place of ray.wait(wait_ref, timeout=t)
GraceBlockedSleep ==
    elapsed < timeout

\* ray.wait(wait_ref, timeout=t) keeps blocking
GraceBlocked ==
    /\ status[wait_ref]["run"] = "pending"
    /\ elapsed < timeout

(* ----------------------------- Init ------------------------------------ *)

\* config.data_processor without a service url and without pipelines
NoDataProcessor ==
    [data_processor_url |-> FALSE, task_pipeline |-> <<>>,
     experience_pipeline |-> <<>>]

\* run() has called both(config) and is inside it
InsideBoth ==
    /\ rpc = "in_mode"
    /\ mode = "both"
    /\ dlc = FALSE
    /\ enable_ray_timeline = FALSE
    /\ data_processor = NoDataProcessor
    /\ activated = {}
    /\ cleanup = <<>>
    /\ reported = "none"
    /\ exc = FALSE

Init ==
    /\ InsideBoth
    /\ pc = "create_explorer"
    /\ config \in Configs
    /\ registered = {}
    /\ calls = [h \in Handles |-> [o \in Ops |-> 0]]
    /\ status = [h \in Handles |-> [o \in Ops |-> "none"]]
    /\ ready_ref = "none"
    /\ wait_ref = "none"
    /\ ready = "none"
    /\ detected = "none"
    /\ timeout = 0
    /\ elapsed = 0

(* ---------------------------- actions ---------------------------------- *)

\* ray.remote(Explorer).options(name=config.explorer.name, ...).remote(config)
CreateExplorer ==
    /\ pc = "create_explorer"
    /\ registered' = registered \cup {config.explorer_name}
    /\ pc' = "create_trainer"
    /\ UNCHANGED <<rvars, config, calls, status, ready_ref, wait_ref, ready,
                   detected, timeout, elapsed>>

\* ray.remote(Trainer).options(name=config.trainer.name, ...).remote(config):
\* a named actor cannot take a name already registered in the namespace
CreateTrainer ==
    /\ pc = "create_trainer"
    /\ IF config.trainer_name \in registered
         THEN /\ pc' = "raised"
              /\ UNCHANGED registered
         ELSE /\ pc' = "ready_dispatch"
              /\ registered' = registered \cup {config.trainer_name}
    /\ UNCHANGED <<rvars, config, calls, status, ready_ref, wait_ref, ready,
                   detected, timeout, elapsed>>

ReadyDispatch ==
    /\ pc = "ready_dispatch"
    /\ DispatchBoth("__ray_ready__")
    /\ pc' = "ready_get"
    /\ UNCHANGED <<rvars, config, registered, ready_ref, wait_ref, ready,
                   detected, timeout, elapsed>>

ReadyGet ==
    /\ pc = "ready_get"
    /\ RayGetAll("__ray_ready__", "prepare_dispatch")
    /\ UNCHANGED <<rvars, config, registered, calls, status, ready_ref, wait_ref,
                   ready, detected, timeout, elapsed>>

PrepareDispatch ==
    /\ pc = "prepare_dispatch"
    /\ DispatchBoth("prepare")
    /\ pc' = "prepare_get"
    /\ UNCHANGED <<rvars, config, registered, ready_ref, wait_ref, ready,
                   detected, timeout, elapsed>>

PrepareGet ==
    /\ pc = "prepare_get"
    /\ RayGetAll("prepare", "sync_weight_dispatch")
    /\ UNCHANGED <<rvars, config, registered, calls, status, ready_ref, wait_ref,
                   ready, detected, timeout, elapsed>>

SyncWeightDispatch ==
    /\ pc = "sync_weight_dispatch"
    /\ DispatchBoth("sync_weight")
    /\ pc' = "sync_weight_get"
    /\ UNCHANGED <<rvars, config, registered, ready_ref, wait_ref, ready,
                   detected, timeout, elapsed>>

SyncWeightGet ==
    /\ pc = "sync_weight_get"
    /\ RayGetAll("sync_weight", "run_dispatch")
    /\ UNCHANGED <<rvars, config, registered, calls, status, ready_ref, wait_ref,
                   ready, detected, timeout, elapsed>>

\* explorer.explore.remote(), trainer.train.remote()
RunDispatch ==
    /\ pc = "run_dispatch"
    /\ DispatchBoth("run")
    /\ pc' = "race_wait"
    /\ UNCHANGED <<rvars, config, registered, ready_ref, wait_ref, ready,
                   detected, timeout, elapsed>>

\* variant: the two results of ray.wait unpacked in the wrong order
RaceWaitSwapped ==
    /\ pc = "race_wait"
    /\ \E h \in Handles :
          /\ Completed(h, "run")
          /\ ready_ref' = Other(h)
          /\ wait_ref' = h
    /\ pc' = "get_ready"
    /\ UNCHANGED <<rvars, config, registered, calls, status, ready, detected,
                   timeout, elapsed>>

\* variant: the first wait gives up although neither result is available
RaceWaitGivesUp ==
    /\ pc = "race_wait"
    /\ \E h \in Handles :
          /\ ready_ref' = h
          /\ wait_ref' = Other(h)
    /\ pc' = IF \E h \in Handles : Completed(h, "run")
               THEN "get_ready" ELSE "shutdown_explorer"
    /\ UNCHANGED <<rvars, config, registered, calls, status, ready, detected,
                   timeout, elapsed>>

\* ready_ref, wait_ref = ray.wait([...], num_returns=1): returns one
\* completed result (succeeded or failed) and the other one; when both are
\* complete either may be returned
RaceWait ==
    /\ pc = "race_wait"
    /\ \E h \in Handles :
          /\ Completed(h, "run")
          /\ ready_ref' = h
          /\ wait_ref' = Other(h)
    /\ pc' = "get_ready"
    /\ UNCHANGED <<rvars, config, registered, calls, status, ready, detected,
                   timeout, elapsed>>

\* ready = ray.get(ready_ref[0]): raises when the run operation failed
GetReady ==
    /\ pc = "get_ready"
    /\ IF status[ready_ref]["run"] = "failed"
         THEN /\ pc' = "raised"
              /\ UNCHANGED ready
         ELSE /\ pc' = "branch"
              /\ ready' = RunToken(ready_ref)
    /\ UNCHANGED <<rvars, config, registered, calls, status, ready_ref, wait_ref,
                   detected, timeout, elapsed>>

\* variant: the short window used in both branches
BranchOneWindow ==
    /\ pc = "branch"
    /\ IF ready = config.trainer_name
         THEN /\ detected' = "Trainer"
              /\ timeout' = ShortWindow
              /\ pc' = "grace"
         ELSE IF ready = config.explorer_name
         THEN /\ detected' = "Explorer"
              /\ timeout' = ShortWindow
              /\ pc' = "grace"
         ELSE /\ pc' = "shutdown_explorer"
              /\ UNCHANGED <<detected, timeout>>
    /\ UNCHANGED <<rvars, config, registered, calls, status, ready_ref, wait_ref,
                   ready, elapsed>>

\* variant: the Explorer's name compared first
BranchExplorerFirst ==
    /\ pc = "branch"
    /\ IF ready = config.explorer_name
         THEN /\ detected' = "Explorer"
              /\ timeout' = config.sync_timeout
              /\ pc' = "grace"
         ELSE IF ready = config.trainer_name
         THEN /\ detected' = "Trainer"
              /\ timeout' = ShortWindow
              /\ pc' = "grace"
         ELSE /\ pc' = "shutdown_explorer"
              /\ UNCHANGED <<detected, timeout>>
    /\ UNCHANGED <<rvars, config, registered, calls, status, ready_ref, wait_ref,
                   ready, elapsed>>

\* if ready == config.trainer.name: ... elif ready == config.explorer.name: ...
Branch ==
    /\ pc = "branch"
    /\ IF ready = config.trainer_name
         THEN /\ detected' = "Trainer"
              /\ timeout' = ShortWindow
              /\ pc' = "grace"
         ELSE IF ready = config.explorer_name
         THEN /\ detected' = "Explorer"
              /\ timeout' = config.sync_timeout
              /\ pc' = "grace"
         ELSE /\ pc' = "shutdown_explorer"
              /\ UNCHANGED <<detected, timeout>>
    /\ UNCHANGED <<rvars, config, registered, calls, status, ready_ref, wait_ref,
                   ready, elapsed>>

\* one unit of time passes while ray.wait(wait_ref, timeout=...) blocks
Tick ==
    /\ pc = "grace"
    /\ GraceBlocked
    /\ elapsed < MaxClock
    /\ elapsed' = elapsed + 1
    /\ UNCHANGED <<rvars, pc, config, registered, calls, status, ready_ref,
                   wait_ref, ready, detected, timeout>>

\* ray.wait(wait_ref, timeout=...) returns; its result is discarded
GraceReturn ==
    /\ pc = "grace"
    /\ ~GraceBlocked
    /\ pc' = "shutdown_explorer"
    /\ UNCHANGED <<rvars, config, registered, calls, status, ready_ref, wait_ref,
                   ready, detected, timeout, elapsed>>

\* explorer.shutdown.remote()
ShutdownExplorer ==
    /\ pc = "shutdown_explorer"
    /\ calls' = Dispatched(calls, "Explorer", "shutdown")
    /\ status' = Pending(status, "Explorer", "shutdown")
    /\ pc' = "shutdown_trainer"
    /\ UNCHANGED <<rvars, config, registered, ready_ref, wait_ref, ready,
                   detected, timeout, elapsed>>

\* variant: explorer.shutdown.remote() written twice
ShutdownTrainerCopyPaste ==
    /\ pc = "shutdown_trainer"
    /\ calls' = Dispatched(calls, "Explorer", "shutdown")
    /\ status' = Pending(status, "Explorer", "shutdown")
    /\ pc' = "done"
    /\ UNCHANGED <<rvars, config, registered, ready_ref, wait_ref, ready,
                   detected, timeout, elapsed>>

\* variant: ray.get(trainer.shutdown.remote()), as the single-role modes do
ShutdownTrainerAwaited ==
    /\ \/ /\ pc = "shutdown_trainer"
          /\ calls' = Dispatched(calls, "Trainer", "shutdown")
          /\ status' = Pending(status, "Trainer", "shutdown")
          /\ pc' = "shutdown_get"
       \/ /\ pc = "shutdown_get"
          /\ Completed("Trainer", "shutdown")
          /\ pc' = IF status["Trainer"]["shutdown"] = "ok" THEN "done" ELSE "raised"
          /\ UNCHANGED <<calls, status>>
    /\ UNCHANGED <<rvars, config, registered, ready_ref, wait_ref, ready,
                   detected, timeout, elapsed>>

\* trainer.shutdown.remote(), after which both() returns
ShutdownTrainer ==
    /\ pc = "shutdown_trainer"
    /\ calls' = Dispatched(calls, "Trainer", "shutdown")
    /\ status' = Pending(status, "Trainer", "shutdown")
    /\ pc' = "done"
    /\ UNCHANGED <<rvars, config, registered, ready_ref, wait_ref, ready,
                   detected, timeout, elapsed>>

\* an actor finishes a pending call, successfully or with an exception
WorkerComplete ==
    /\ \E h \in Handles, o \in Ops, r \in {"ok", "failed"} :
          /\ status[h][o] = "pending"
          /\ status' = [status EXCEPT ![h][o] = r]
    /\ UNCHANGED <<rvars, pc, config, registered, calls, ready_ref, wait_ref,
                   ready, detected, timeout, elapsed>>

\* the steps of the launcher process itself
Orchestrator ==
    \/ CreateExplorer
    \/ CreateTrainer
    \/ ReadyDispatch
    \/ ReadyGet
    \/ PrepareDispatch
    \/ PrepareGet
    \/ SyncWeightDispatch
    \/ SyncWeightGet
    \/ RunDispatch
    \/ RaceWait
    \/ GetReady
    \/ Branch
    \/ GraceReturn
    \/ ShutdownExplorer
    \/ ShutdownTrainer

Next ==
    \/ CreateExplorer
    \/ CreateTrainer
    \/ ReadyDispatch
    \/ ReadyGet
    \/ PrepareDispatch
    \/ PrepareGet
    \/ SyncWeightDispatch
    \/ SyncWeightGet
    \/ RunDispatch
    \/ RaceWait
    \/ GetReady
    \/ Branch
    \/ Tick
    \/ GraceReturn
    \/ ShutdownExplorer
    \/ ShutdownTrainer
    \/ WorkerComplete

Spec == Init /\ [][Next]_vars

\* The launcher is a running process and time advances; actors are under
\* no obligation to ever complete a call.
FairSpec == Spec /\ WF_vars(Orchestrator) /\ WF_vars(Tick)

(* ------------------- run(): data pipelines ----------------------------- *)

\* largest number of input buffers of a pipeline that is enumerated
MaxBuffers == 2

BufNames == {"a", "b"}

Buffers == [name : BufNames, raw : BOOLEAN]

BoundedSeq(S, n) == UNION {[1..k -> S] : k \in 0..n}

\* DataPipelineConfig: input_buffers and the name of output_buffer
Pipelines == [input_buffers : BoundedSeq(Buffers, MaxBuffers),
              output_buffer : BufNames]

\* an optional pipeline: <<>> when the configuration has none
OptPipelines == {<<>>} \cup {<<p>> : p \in Pipelines}

DataProcessors == [data_processor_url : BOOLEAN,
                   task_pipeline : OptPipelines,
                   experience_pipeline : OptPipelines]

\* variant: the raw-file check of task pipelines left out
ValidateWithoutRawCheck(p, pipeline_type) ==
    IF Len(p.input_buffers) = 0 THEN "False"
    ELSE IF p.output_buffer \in
               {p.input_buffers[i].name : i \in 1..Len(p.input_buffers)}
         THEN "False"
    ELSE IF pipeline_type = "task" THEN "True"
    ELSE IF pipeline_type = "experience" THEN "NotImplementedError"
    ELSE "False"

\* validate_data_pipeline: "True", "False", or the exception it raises
validate_data_pipeline(p, pipeline_type) ==
    IF Len(p.input_buffers) = 0 THEN "False"
    ELSE IF p.output_buffer \in
               {p.input_buffers[i].name : i \in 1..Len(p.input_buffers)}
         THEN "False"
    ELSE IF pipeline_type = "task"
         THEN IF \E i \in 1..Len(p.input_buffers) : ~p.input_buffers[i].raw
                THEN "False" ELSE "True"
    ELSE IF pipeline_type = "experience" THEN "NotImplementedError"
    ELSE "False"

\* what both() and the single-role functions own
mvars == <<pc, config, registered, calls, status,
           ready_ref, wait_ref, ready, detected, timeout, elapsed>>

\* lines 212-219: the task pipeline is activated when the url is set, the
\* pipeline is configured and it validates
TaskPipeline ==
    /\ rpc = "task_pipeline"
    /\ IF /\ data_processor.data_processor_url
          /\ data_processor.task_pipeline # <<>>
          /\ validate_data_pipeline(data_processor.task_pipeline[1], "task") = "True"
         THEN activated' = activated \cup {"task_pipeline"}
         ELSE UNCHANGED activated
    /\ rpc' = "experience_pipeline"
    /\ UNCHANGED <<mvars, mode, dlc, enable_ray_timeline, data_processor,
                   cleanup, reported, exc>>

\* lines 221-228: the same for the experience pipeline; an exception of the
\* validation leaves run() at once, ahead of its try block
ExperiencePipeline ==
    /\ rpc = "experience_pipeline"
    /\ IF /\ data_processor.data_processor_url
          /\ data_processor.experience_pipeline # <<>>
         THEN LET v == validate_data_pipeline(
                           data_processor.experience_pipeline[1], "experience")
              IN  IF v = "NotImplementedError"
                    THEN /\ rpc' = "crashed"
                         /\ exc' = TRUE
                         /\ UNCHANGED activated
                    ELSE /\ rpc' = "ray_init"
                         /\ exc' = exc
                         /\ activated' = IF v = "True"
                                           THEN activated \cup {"experience_pipeline"}
                                           ELSE activated
         ELSE /\ rpc' = "ray_init"
              /\ UNCHANGED <<activated, exc>>
    /\ UNCHANGED <<mvars, mode, dlc, enable_ray_timeline, data_processor,
                   cleanup, reported>>

\* lines 229-238: setup_ray_cluster or ray.init
RayInit ==
    /\ rpc = "ray_init"
    /\ rpc' = "mode"
    /\ UNCHANGED <<mvars, mode, dlc, enable_ray_timeline, data_processor,
                   activated, cleanup, reported, exc>>

(* ------------------- run(): mode and cleanup ---------------------------- *)

Modes == {"explore", "train", "both", "bench"}

SingleModes == {"explore", "train", "bench"}

\* lines 240-247: the function of the configured mode is called
EnterMode ==
    /\ rpc = "mode"
    /\ rpc' = "in_mode"
    /\ pc' = IF mode = "both" THEN "create_explorer" ELSE "single_create"
    /\ UNCHANGED <<config, registered, calls, status, ready_ref, wait_ref,
                   ready, detected, timeout, elapsed, mode, dlc,
                   enable_ray_timeline, data_processor, activated, cleanup,
                   reported, exc>>

ModeEnded == pc \in {"done", "raised", "returned"}

\* variant: the cleanup written after the try block instead of in finally
ModeEndsNoFinally ==
    /\ rpc = "in_mode"
    /\ ModeEnded
    /\ exc' = (pc = "raised")
    /\ rpc' = IF pc = "raised" THEN "crashed" ELSE "finally_timeline"
    /\ UNCHANGED <<mvars, mode, dlc, enable_ray_timeline, data_processor,
                   activated, cleanup, reported>>

\* the mode function returns or raises: control enters the finally block
ModeEnds ==
    /\ rpc = "in_mode"
    /\ ModeEnded
    /\ exc' = (pc = "raised")
    /\ rpc' = "finally_timeline"
    /\ UNCHANGED <<mvars, mode, dlc, enable_ray_timeline, data_processor,
                   activated, cleanup, reported>>

\* lines 249-253: if config.monitor.enable_ray_timeline: ray.timeline(...)
FinallyTimeline ==
    /\ rpc = "finally_timeline"
    /\ cleanup' = IF enable_ray_timeline THEN Append(cleanup, "timeline")
                                         ELSE cleanup
    /\ rpc' = "finally_dlc"
    /\ UNCHANGED <<mvars, mode, dlc, enable_ray_timeline, data_processor,
                   activated, reported, exc>>

\* lines 255-258: if dlc: stop_ray_cluster(...); then run() returns, or the
\* exception of the mode function goes on to the caller of run()
FinallyDlc ==
    /\ rpc = "finally_dlc"
    /\ cleanup' = IF dlc THEN Append(cleanup, "stop_ray_cluster") ELSE cleanup
    /\ rpc' = IF exc THEN "crashed" ELSE "exit"
    /\ UNCHANGED <<mvars, mode, dlc, enable_ray_timeline, data_processor,
                   activated, reported, exc>>

(* ------------------- explore(), train(), bench() ------------------------ *)

\* the one actor of a single-role mode
SingleHandle == IF mode = "train" THEN "Trainer" ELSE "Explorer"

\* handle.op.remote() on the one actor
SingleCall(op, here, next) ==
    /\ pc = here
    /\ calls' = Dispatched(calls, SingleHandle, op)
    /\ status' = Pending(status, SingleHandle, op)
    /\ pc' = next
    /\ UNCHANGED <<config, registered, ready_ref, wait_ref, ready, detected,
                   timeout, elapsed, rvars>>

\* variant: the result of the call is not waited for
SingleGetNoWait(op, here, next) ==
    /\ pc = here
    /\ pc' = next
    /\ UNCHANGED <<config, registered, calls, status, ready_ref, wait_ref,
                   ready, detected, timeout, elapsed, rvars>>

\* variant: a failure is logged and the shutdown is still sent
SingleGetThenShutdown(op, here, next) ==
    /\ pc = here
    /\ Completed(SingleHandle, op)
    /\ IF status[SingleHandle][op] = "ok"
         THEN /\ pc' = next
              /\ UNCHANGED reported
         ELSE /\ pc' = IF op = "shutdown" THEN "returned" ELSE "single_shutdown"
              /\ reported' = "failed"
    /\ UNCHANGED <<config, registered, calls, status, ready_ref, wait_ref,
                   ready, detected, timeout, elapsed, rpc, mode, dlc,
                   enable_ray_timeline, data_processor, activated, cleanup,
                   exc>>

\* ray.get(...) on that call inside try/except Exception: it blocks until the
\* call completes; a failure is logged ("... failed") and the function
\* returns
SingleGet(op, here, next) ==
    /\ pc = here
    /\ Completed(SingleHandle, op)
    /\ IF status[SingleHandle][op] = "ok"
         THEN /\ pc' = next
              /\ UNCHANGED reported
         ELSE /\ pc' = "returned"
              /\ reported' = "failed"
    /\ UNCHANGED <<config, registered, calls, status, ready_ref, wait_ref,
                   ready, detected, timeout, elapsed, rpc, mode, dlc,
                   enable_ray_timeline, data_processor, activated, cleanup,
                   exc>>

\* ray.remote(...).options(name=...).remote(config)
SingleCreate ==
    /\ pc = "single_create"
    /\ registered' = registered \cup {NameOf(SingleHandle)}
    /\ pc' = "single_prepare"
    /\ UNCHANGED <<config, calls, status, ready_ref, wait_ref, ready,
                   detected, timeout, elapsed, rvars>>

SinglePrepare == SingleCall("prepare", "single_prepare", "single_prepare_get")

\* bench() has no sync_weight
SinglePrepareGet ==
    SingleGet("prepare", "single_prepare_get",
              IF mode = "bench" THEN "single_run" ELSE "single_sync_weight")

SingleSyncWeight ==
    SingleCall("sync_weight", "single_sync_weight", "single_sync_weight_get")

SingleSyncWeightGet ==
    SingleGet("sync_weight", "single_sync_weight_get", "single_run")

\* explorer.explore / trainer.train / explorer.benchmark
SingleRun == SingleCall("run", "single_run", "single_run_get")

SingleRunGet == SingleGet("run", "single_run_get", "single_shutdown")

SingleShutdown == SingleCall("shutdown", "single_shutdown", "single_shutdown_get")

SingleShutdownGet == SingleGet("shutdown", "single_shutdown_get", "returned")

(* ------------------- specifications of run() ---------------------------- *)

\* run() ahead of the pipeline activation; no data processor configured
RunInit ==
    /\ rpc = "task_pipeline"
    /\ mode \in Modes
    /\ dlc \in BOOLEAN
    /\ enable_ray_timeline \in BOOLEAN
    /\ data_processor = NoDataProcessor
    /\ activated = {}
    /\ cleanup = <<>>
    /\ reported = "none"
    /\ exc = FALSE
    /\ pc = "idle"
    /\ config \in Configs
    /\ registered = {}
    /\ calls = [h \in Handles |-> [o \in Ops |-> 0]]
    /\ status = [h \in Handles |-> [o \in Ops |-> "none"]]
    /\ ready_ref = "none"
    /\ wait_ref = "none"
    /\ ready = "none"
    /\ detected = "none"
    /\ timeout = 0
    /\ elapsed = 0

RunNext ==
    \/ TaskPipeline
    \/ ExperiencePipeline
    \/ RayInit
    \/ EnterMode
    \/ ModeEnds
    \/ FinallyTimeline
    \/ FinallyDlc
    \/ SingleCreate
    \/ SinglePrepare
    \/ SinglePrepareGet
    \/ SingleSyncWeight
    \/ SingleSyncWeightGet
    \/ SingleRun
    \/ SingleRunGet
    \/ SingleShutdown
    \/ SingleShutdownGet
    \/ CreateExplorer
    \/ CreateTrainer
    \/ ReadyDispatch
    \/ ReadyGet
    \/ PrepareDispatch
    \/ PrepareGet
    \/ SyncWeightDispatch
    \/ SyncWeightGet
    \/ RunDispatch
    \/ RaceWait
    \/ GetReady
    \/ Branch
    \/ Tick
    \/ GraceReturn
    \/ ShutdownExplorer
    \/ ShutdownTrainer
    \/ WorkerComplete

RunSpec == RunInit /\ [][RunNext]_vars

\* run() ahead of the pipeline activation, for every data processor
PipelineInit ==
    /\ rpc = "task_pipeline"
    /\ mode \in Modes
    /\ dlc = FALSE
    /\ enable_ray_timeline = FALSE
    /\ data_processor \in DataProcessors
    /\ activated = {}
    /\ cleanup = <<>>
    /\ reported = "none"
    /\ exc = FALSE
    /\ pc = "idle"
    /\ config = [explorer_name |-> "explorer", trainer_name |-> "trainer",
                 sync_timeout |-> 1]
    /\ registered = {}
    /\ calls = [h \in Handles |-> [o \in Ops |-> 0]]
    /\ status = [h \in Handles |-> [o \in Ops |-> "none"]]
    /\ ready_ref = "none"
    /\ wait_ref = "none"
    /\ ready = "none"
    /\ detected = "none"
    /\ timeout = 0
    /\ elapsed = 0

\* run() up to the call of the mode function
PipelineNext ==
    \/ TaskPipeline
    \/ ExperiencePipeline
    \/ RayInit

PipelineSpec == PipelineInit /\ [][PipelineNext]_vars

(* ---- the code from line 129 on, for every value line 128 can bind ------ *)

\* values a run operation may hand back: a configured name or anything else
Tokens == Names \cup {"other"}

\* both() at line 129: the barrier phases are behind it, the first run
\* operation has completed successfully and its value is bound to ready
BranchInit ==
    /\ InsideBoth
    /\ pc = "branch"
    /\ config \in Configs
    /\ registered = {config.explorer_name, config.trainer_name}
    /\ calls = [h \in Handles |->
                  [o \in Ops |-> IF o = "shutdown" THEN 0 ELSE 1]]
    /\ ready_ref \in Handles
    /\ wait_ref = Other(ready_ref)
    /\ \E r \in {"pending", "ok", "failed"} :
          status = [h \in Handles |->
                      [o \in Ops |->
                          IF o = "shutdown" THEN "none"
                          ELSE IF o = "run" /\ h = wait_ref THEN r
                          ELSE "ok"]]
    /\ ready \in Tokens
    /\ detected = "none"
    /\ timeout = 0
    /\ elapsed = 0

BranchNext ==
    \/ Branch
    \/ Tick
    \/ GraceReturn
    \/ ShutdownExplorer
    \/ ShutdownTrainer
    \/ WorkerComplete

BranchSpec == BranchInit /\ [][BranchNext]_vars

TypeOK ==
    /\ pc \in {"create_explorer", "create_trainer", "ready_dispatch",
               "ready_get", "prepare_dispatch", "prepare_get",
               "sync_weight_dispatch", "sync_weight_get", "run_dispatch",
               "race_wait", "get_ready", "branch", "grace",
               "shutdown_explorer", "shutdown_trainer", "done", "raised",
               "idle", "single_create", "single_prepare",
               "single_prepare_get", "single_sync_weight",
               "single_sync_weight_get", "single_run", "single_run_get",
               "single_shutdown", "single_shutdown_get", "returned"}
    /\ config \in Configs
    /\ registered \subseteq Names
    /\ \A h \in Handles, o \in Ops :
          /\ calls[h][o] \in Nat
          /\ status[h][o] \in {"none", "pending", "ok", "failed"}
    /\ ready_ref \in Handles \cup {"none"}
    /\ wait_ref \in Handles \cup {"none"}
    /\ ready \in Tokens \cup {"none"}
    /\ detected \in Handles \cup {"none"}
    /\ timeout \in 0..MaxClock
    /\ elapsed \in 0..MaxClock
    /\ rpc \in {"task_pipeline", "experience_pipeline", "ray_init", "mode",
                "in_mode", "finally_timeline", "finally_dlc", "exit",
                "crashed"}
    /\ mode \in Modes
    /\ dlc \in BOOLEAN
    /\ enable_ray_timeline \in BOOLEAN
    /\ data_processor \in DataProcessors
    /\ activated \subseteq {"task_pipeline", "experience_pipeline"}
    /\ cleanup \in BoundedSeq({"timeline", "stop_ray_cluster"}, 2)
    /\ reported \in {"none", "failed"}
    /\ exc \in BOOLEAN

(* ------------------- shared state predicates --------------------------- *)

Terminated == pc \in {"done", "raised"}

ShutdownIssued == \E h \in Handles : calls[h]["shutdown"] > 0

ShutdownBoth == \A h \in Handles : calls[h]["shutdown"] = 1

\* the first completed run operation is the Trainer's, and it succeeded
TrainerWon == ready_ref = "Trainer" /\ status["Trainer"]["run"] = "ok"

\* the first completed run operation is the Explorer's, and it succeeded
ExplorerWon == ready_ref = "Explorer" /\ status["Explorer"]["run"] = "ok"

\* both remote handles have been constructed
HandlesCreated == Cardinality(registered) = 2

PastRace == pc \in {"grace", "shutdown_explorer", "shutdown_trainer", "done"}

(* ------------------------------ C1 ------------------------------------- *)

\* C1: every run of both() that has constructed its two handles and has
\* ended, normally or by an exception, has invoked shutdown on the Explorer handle and on the Trainer handle.
C1_ShutdownOnEveryRun ==
    (Terminated /\ HandlesCreated) =>
        \A h \in Handles : calls[h]["shutdown"] >= 1

(* ------------------------------ C2 ------------------------------------- *)

\* C2: prepare is invoked on a handle only when both handles are ready,
\* sync_weight only when prepare has completed on both, and run only when
\* sync_weight has completed on both.
C2_PhasesSequenced ==
    \A h \in Handles :
       /\ calls[h]["prepare"] > 0 => AllOk("__ray_ready__")
       /\ calls[h]["sync_weight"] > 0 => AllOk("prepare")
       /\ calls[h]["run"] > 0 => AllOk("sync_weight")

C2_Witness ==
    /\ pc = "race_wait"
    /\ \A h \in Handles : calls[h]["run"] = 1 /\ status[h]["run"] = "pending"

(* ------------------------------ C3 ------------------------------------- *)

\* C3: once prepare has failed on a handle no handle receives sync_weight
\* or run, once sync_weight has failed no handle receives run; the run does
\* not go on past the failed phase and the phase is not issued again.
C3_FailedPhaseIsFatal ==
    /\ AnyFailed("prepare") =>
          /\ \A h \in Handles : calls[h]["sync_weight"] = 0 /\ calls[h]["run"] = 0
          /\ \A h \in Handles : calls[h]["prepare"] = 1
          /\ pc \in {"prepare_get", "raised"}
    /\ AnyFailed("sync_weight") =>
          /\ \A h \in Handles : calls[h]["run"] = 0
          /\ \A h \in Handles : calls[h]["sync_weight"] = 1
          /\ pc \in {"sync_weight_get", "raised"}

\* prepare failed on the Trainer although the Explorer's prepare succeeded
C3_Witness ==
    /\ pc = "raised"
    /\ status["Trainer"]["prepare"] = "failed"
    /\ status["Explorer"]["prepare"] = "ok"

(* ------------------------------ C4 ------------------------------------- *)

\* C4: when the run operation that completed first has failed, the run of
\* both() still ends with the grace wait on the other operation behind it
\* and with shutdown sent to both handles.
C4_FailedWinnerStillShutsDown ==
    (Terminated /\ ready_ref # "none" /\ status[ready_ref]["run"] = "failed")
       => (timeout > 0 /\ ShutdownBoth)

(* ------------------------------ C5 ------------------------------------- *)

\* C5: when the Trainer finished first, the wait on the Explorer's run
\* operation never exceeds the short fixed window, shutdown is not issued
\* while the Explorer is still running and the window has not elapsed, and
\* shutdown is always issued to both handles in the end, whether or not the
\* Explorer finished.
C5_TrainerFirstShortWindow ==
    /\ [](TrainerWon =>
            /\ wait_ref = "Explorer"
            /\ elapsed <= ShortWindow
            /\ ShutdownIssued =>
                  (Completed("Explorer", "run") \/ elapsed = ShortWindow))
    /\ (TrainerWon ~> ShutdownBoth)

\* the window elapsed with the Explorer still running
C5_Witness ==
    /\ pc = "done"
    /\ TrainerWon
    /\ elapsed = ShortWindow
    /\ status["Explorer"]["run"] = "pending"
    /\ ShutdownBoth

(* ------------------------------ C6 ------------------------------------- *)

\* C6: when the Explorer finished first, the wait on the Trainer's run
\* operation never exceeds synchronizer.sync_timeout, shutdown is not issued
\* while the Trainer is still running and the window has not elapsed, and
\* shutdown is always issued to both handles in the end, also when the
\* Trainer never finishes.
C6_ExplorerFirstConfiguredWindow ==
    /\ [](ExplorerWon =>
            /\ wait_ref = "Trainer"
            /\ elapsed <= config.sync_timeout
            /\ ShutdownIssued =>
                  (Completed("Trainer", "run") \/ elapsed = config.sync_timeout))
    /\ (ExplorerWon ~> ShutdownBoth)

\* the configured window, longer than the short one, elapsed with the
\* Trainer still running
C6_Witness ==
    /\ pc = "done"
    /\ ExplorerWon
    /\ config.sync_timeout > ShortWindow
    /\ elapsed = config.sync_timeout
    /\ status["Trainer"]["run"] = "pending"
    /\ ShutdownBoth

(* ------------------------------ C7 ------------------------------------- *)

\* C7: once the slower run operation has completed during the grace wait,
\* no further time is spent waiting: the next step of the launcher leaves
\* the wait for shutdown, and shutdown of both handles follows.
C7_GraceEndsEarly ==
    /\ [][(pc = "grace" /\ Completed(wait_ref, "run")) =>
             (elapsed' = elapsed /\ pc' \in {"grace", "shutdown_explorer"})]_vars
    /\ ((pc = "grace" /\ Completed(wait_ref, "run")) ~> ShutdownBoth)

\* the Trainer finished part-way through the configured window
C7_Witness ==
    /\ pc = "shutdown_explorer"
    /\ ExplorerWon
    /\ Completed("Trainer", "run")
    /\ elapsed > 0
    /\ elapsed < timeout

(* ------------------------------ C8 ------------------------------------- *)

\* C8: the operation taken as first is one that has completed and the other
\* handle's is the one waited on; past the race exactly the role that was
\* taken as first is announced as finished, and the window applied is the
\* short one for the Trainer and the configured one for the Explorer.
C8_OneWinnerMatchingPolicy ==
    /\ ready_ref # "none" =>
          /\ Completed(ready_ref, "run")
          /\ wait_ref = Other(ready_ref)
    /\ detected # "none" => PastRace
    /\ PastRace =>
          /\ detected \in Handles
          /\ detected = ready_ref
          /\ status[detected]["run"] = "ok"
          /\ timeout = IF detected = "Trainer" THEN ShortWindow
                                               ELSE config.sync_timeout

\* both run operations were complete when the race was resolved, and the
\* Trainer was taken as the winner
C8_Witness ==
    /\ pc = "grace"
    /\ detected = "Trainer"
    /\ elapsed = 0
    /\ Completed("Explorer", "run")

(* ------------------------------ C9 ------------------------------------- *)

\* C9: prepare, sync_weight, run and shutdown are each invoked at most once
\* on each handle.
C9_NoOperationRepeated ==
    \A h \in Handles :
       \A o \in {"prepare", "sync_weight", "run", "shutdown"} : calls[h][o] <= 1

\* a complete run whose grace window expired
C9_Witness ==
    /\ pc = "done"
    /\ elapsed = timeout
    /\ status[wait_ref]["run"] = "pending"
    /\ \A h \in Handles :
          \A o \in {"prepare", "sync_weight", "run", "shutdown"} : calls[h][o] = 1

(* ------------------------------ C10 ------------------------------------ *)

\* C10: the launcher is at its end as soon as the second shutdown has been
\* dispatched, and it always gets from the first shutdown to its end, also
\* when no shutdown call ever completes.
C10_ShutdownNotAwaited ==
    /\ [](calls["Trainer"]["shutdown"] > 0 => pc = "done")
    /\ (pc = "shutdown_explorer" ~> pc = "done")

\* both() has returned while both shutdown calls are still outstanding
C10_Witness ==
    /\ pc = "done"
    /\ \A h \in Handles : status[h]["shutdown"] = "pending"

(* ------------------------------ C16 ------------------------------------ *)

BarrierOps == {"__ray_ready__", "prepare", "sync_weight"}

\* where the launcher waits for the two results of a barrier phase
GetPc(op) ==
    CASE op = "__ray_ready__" -> "ready_get"
      [] op = "prepare" -> "prepare_get"
      [] op = "sync_weight" -> "sync_weight_get"

\* where the launcher is right after that wait has returned
AfterPc(op) ==
    CASE op = "__ray_ready__" -> "prepare_dispatch"
      [] op = "prepare" -> "sync_weight_dispatch"
      [] op = "sync_weight" -> "run_dispatch"

\* C16: in each barrier phase both handles have received the operation
\* whenever the launcher waits, also when one of the two calls failed; the
\* launcher gets past the wait only with both calls succeeded, and a failure
\* on one handle ends the run there even when the other call succeeded.
C16_BarrierDispatchesBothThenWaits ==
    \A op \in BarrierOps :
       /\ pc = GetPc(op) => \A h \in Handles : calls[h][op] = 1
       /\ AnyFailed(op) =>
             /\ \A h \in Handles : calls[h][op] = 1
             /\ pc \in {GetPc(op), "raised"}
       /\ pc = AfterPc(op) => AllOk(op)

\* sync_weight failed on the Explorer after the Trainer's had succeeded and
\* the phase failed as a whole
C16_Witness ==
    /\ pc = "raised"
    /\ status["Explorer"]["sync_weight"] = "failed"
    /\ status["Trainer"]["sync_weight"] = "ok"
    /\ \A h \in Handles : calls[h]["sync_weight"] = 1

(* ------------------------------ C17 ------------------------------------ *)

BothRunning == \A h \in Handles : status[h]["run"] = "pending"

\* C17: shutdown is never issued unless a run operation has completed, and
\* while both run operations are pending the launcher does not leave the
\* first-completion wait, however long that lasts.
C17_RaceWaitUnbounded ==
    /\ [](ShutdownIssued => \E h \in Handles : Completed(h, "run"))
    /\ [][(pc = "race_wait" /\ BothRunning) => pc' = "race_wait"]_vars

\* the launcher sits in the first-completion wait with nothing completed:
\* no window is running and no shutdown has been issued
C17_Witness ==
    /\ pc = "race_wait"
    /\ BothRunning
    /\ timeout = 0
    /\ elapsed = 0
    /\ ~ShutdownIssued

(* ------------------------------ C18 ------------------------------------ *)

NeitherName == ready \notin {config.trainer_name, config.explorer_name}

\* C18: the value bound to ready is compared with the Trainer's name first:
\* when it equals that name the Trainer is announced and the short window
\* is used, also when the names are equal and the Explorer finished first;
\* when it equals only the Explorer's name the configured window is used;
\* when it equals neither name the launcher's next step is the shutdown of
\* the Explorer, without any wait.
C18_PolicyByTokenTrainerFirst ==
    /\ [](pc # "branch" =>
            /\ ready = config.trainer_name =>
                  (detected = "Trainer" /\ timeout = ShortWindow)
            /\ (ready = config.explorer_name /\ ready # config.trainer_name) =>
                  (detected = "Explorer" /\ timeout = config.sync_timeout)
            /\ NeitherName =>
                  (detected = "none" /\ timeout = 0 /\ elapsed = 0))
    /\ [][(pc = "branch" /\ NeitherName /\ pc' # pc) =>
             pc' = "shutdown_explorer"]_vars

\* equal names, the Explorer finished first, and the short window ran out
\* on the Trainer
C18_Witness ==
    /\ pc = "done"
    /\ config.explorer_name = config.trainer_name
    /\ ready_ref = "Explorer"
    /\ ready = config.explorer_name
    /\ detected = "Trainer"
    /\ elapsed = ShortWindow
    /\ ShutdownBoth

\* a value that is neither name: shutdown of both handles without a wait
C18_WitnessNeither ==
    /\ pc = "done"
    /\ NeitherName
    /\ status[wait_ref]["run"] = "pending"
    /\ elapsed = 0
    /\ ShutdownBoth

(* ------------------------------ C11 ------------------------------------ *)

\* every phase up to and including run went well: in a single-role mode the
\* calls on the one actor, in both mode the barrier phases on both actors
\* with no run operation failed
PhasesSucceeded ==
    IF mode = "both"
      THEN /\ \A op \in BarrierOps : AllOk(op)
           /\ \A h \in Handles : status[h]["run"] \in {"ok", "pending"}
      ELSE /\ status[SingleHandle]["prepare"] = "ok"
           /\ mode # "bench" => status[SingleHandle]["sync_weight"] = "ok"
           /\ status[SingleHandle]["run"] = "ok"

\* C11: in every mode, a run whose phases up to and including run succeeded
\* is not reported as failed and does not end with an exception, whatever
\* becomes of the shutdown call.
C11_ShutdownFailureNotReported ==
    PhasesSucceeded => (reported # "failed" /\ rpc # "crashed")

(* ------------------------------ C12 ------------------------------------ *)

\* a remote call of some phase has failed
SomePhaseFailed == \E h \in Handles, o \in Ops : status[h][o] = "failed"

\* C12: in every mode, a run in which a phase failed still ends with run()
\* returning: the failure does not leave run() as an exception.
C12_RunNeverCrashes ==
    (rpc \in {"exit", "crashed"} /\ SomePhaseFailed) => (rpc = "exit" /\ ~exc)

(* ------------------------------ C13 ------------------------------------ *)

\* the cleanup steps the flags enable, in the order of the finally block
ExpectedCleanup ==
    (IF enable_ray_timeline THEN <<"timeline">> ELSE <<>>)
       \o (IF dlc THEN <<"stop_ray_cluster">> ELSE <<>>)

\* C13: when run() has ended after its mode function, by returning or with
\* the exception of the mode function, exactly the enabled cleanup steps
\* have been executed, and none of them is executed before the mode function
\* has ended.
C13_CleanupAlwaysRuns ==
    /\ rpc \in {"exit", "crashed"} => cleanup = ExpectedCleanup
    /\ cleanup # <<>> => ModeEnded

\* both() raised, and the timeline export and the cluster teardown ran
\* before the exception left run()
C13_Witness ==
    /\ rpc = "crashed"
    /\ mode = "both"
    /\ pc = "raised"
    /\ cleanup = <<"timeline", "stop_ray_cluster">>

(* ------------------------------ C14 ------------------------------------ *)

\* C14: in a single-role mode sync_weight is dispatched only after prepare
\* succeeded, run only after prepare (and, outside bench, sync_weight)
\* succeeded, shutdown only after the run operation succeeded; bench sends
\* no sync_weight, and the other role's actor receives nothing.
C14_SingleModeSequenced ==
    mode \in SingleModes =>
       /\ calls[SingleHandle]["sync_weight"] > 0 =>
             (mode # "bench" /\ status[SingleHandle]["prepare"] = "ok")
       /\ calls[SingleHandle]["run"] > 0 =>
             /\ status[SingleHandle]["prepare"] = "ok"
             /\ mode # "bench" => status[SingleHandle]["sync_weight"] = "ok"
       /\ calls[SingleHandle]["shutdown"] > 0 =>
             status[SingleHandle]["run"] = "ok"
       /\ \A o \in Ops : calls[Other(SingleHandle)][o] = 0

\* explore() went through its four calls and returned
C14_Witness ==
    /\ mode = "explore"
    /\ pc = "returned"
    /\ reported = "none"
    /\ \A o \in {"prepare", "sync_weight", "run", "shutdown"} :
          calls["Explorer"][o] = 1 /\ status["Explorer"][o] = "ok"

(* ------------------------------ C15 ------------------------------------ *)

UrlSet == data_processor.data_processor_url

TaskConfigured == UrlSet /\ data_processor.task_pipeline # <<>>

ExperienceConfigured == UrlSet /\ data_processor.experience_pipeline # <<>>

\* the documented reasons to turn a pipeline down: no input buffer, the
\* output buffer among the inputs, or a task pipeline with an input that
\* is not raw
Rejected(p, pipeline_type) ==
    \/ p.input_buffers = <<>>
    \/ \E i \in DOMAIN p.input_buffers :
          p.input_buffers[i].name = p.output_buffer
    \/ /\ pipeline_type = "task"
       /\ \E i \in DOMAIN p.input_buffers : p.input_buffers[i].raw = FALSE

\* C15 as stated: for either pipeline type, a configured pipeline that the
\* validation does not accept is not activated and no error is raised.
C15_NotValidatedNeverFails ==
    /\ (rpc # "task_pipeline" /\ TaskConfigured
           /\ validate_data_pipeline(data_processor.task_pipeline[1], "task") # "True")
         => "task_pipeline" \notin activated
    /\ (rpc \notin {"task_pipeline", "experience_pipeline"} /\ ExperienceConfigured
           /\ validate_data_pipeline(data_processor.experience_pipeline[1],
                                     "experience") # "True")
         => ("experience_pipeline" \notin activated /\ rpc # "crashed")

\* C15 amended: a pipeline that is turned down for a documented reason is
\* not activated and raises nothing; run() is left with an exception exactly
\* for a configured experience pipeline that is not turned down.
C15_RejectedSkippedExperienceRaises ==
    /\ (rpc # "task_pipeline" /\ TaskConfigured
           /\ Rejected(data_processor.task_pipeline[1], "task"))
         => "task_pipeline" \notin activated
    /\ (rpc \notin {"task_pipeline", "experience_pipeline"} /\ ExperienceConfigured
           /\ Rejected(data_processor.experience_pipeline[1], "experience"))
         => ("experience_pipeline" \notin activated /\ rpc # "crashed")
    /\ rpc \notin {"task_pipeline", "experience_pipeline"} =>
         (rpc = "crashed" <=>
            (ExperienceConfigured
               /\ ~Rejected(data_processor.experience_pipeline[1], "experience")))

\* a task pipeline turned down only for a non-raw input and an experience
\* pipeline turned down for its output buffer: nothing activated, and run()
\* has arrived at the call of the mode function
C15_Witness ==
    /\ rpc = "mode"
    /\ TaskConfigured
    /\ ExperienceConfigured
    /\ LET tp == data_processor.task_pipeline[1]
       IN  /\ tp.input_buffers # <<>>
           /\ \A i \in DOMAIN tp.input_buffers :
                 tp.input_buffers[i].name # tp.output_buffer
           /\ \E i \in DOMAIN tp.input_buffers : ~tp.input_buffers[i].raw
    /\ Rejected(data_processor.experience_pipeline[1], "experience")
    /\ activated = {}

(* ------------------------------ C19 ------------------------------------ *)

\* the calls a single-role mode makes after the given one
LaterOps(op) ==
    CASE op = "prepare" -> {"sync_weight", "run", "shutdown"}
      [] op = "sync_weight" -> {"run", "shutdown"}
      [] op = "run" -> {"shutdown"}

\* C19: in a single-role mode, once prepare, sync_weight or the run
\* operation has failed no later call is made on the actor, shutdown
\* included; the function logs the failure when it notices it and returns,
\* and no exception reaches run().
C19_SingleModeFailureStops ==
    mode \in SingleModes =>
       /\ \A op \in {"prepare", "sync_weight", "run"} :
             status[SingleHandle][op] = "failed" =>
                /\ \A o \in LaterOps(op) : calls[SingleHandle][o] = 0
                /\ pc = "returned" => reported = "failed"
                /\ pc \notin {"single_shutdown", "single_shutdown_get"}
       /\ pc # "raised"
       /\ ~exc
       /\ rpc # "crashed"

\* train() logged the failure of the run operation and returned without a
\* shutdown, and run() came to its normal end
C19_Witness ==
    /\ mode = "train"
    /\ rpc = "exit"
    /\ status["Trainer"]["run"] = "failed"
    /\ calls["Trainer"]["shutdown"] = 0
    /\ reported = "failed"

====
